---- MODULE Spec2Model ----
(***************************************************************************)
(* HydroSpillNet backend: the AIS vessel file parser (Backend/app.py,      *)
(* parse_ais_file) and the threshold spill detector                        *)
(* (Backend/oil_spill_detector.py, detect_oil_spill).                      *)
(*                                                                         *)
(* Text is a sequence of one-character strings, so that strip, lower,      *)
(* split, count and the substring test are computed character by           *)
(* character as Python computes them.  Python's 0-based indices are kept   *)
(* (GetItem adds the 1 of TLA+ sequences).                                 *)
(***************************************************************************)
EXTENDS Integers, Sequences, FiniteSets, TLC

VARIABLES
    pc,            \* position in the function being executed
    \* ---- parse_ais_file
    ais_file,      \* the uploaded file: [readable, bytes]
    text,          \* decoded text
    lines,         \* stripped non-blank lines
    has_header,
    delimiter,
    headers,
    index_map,     \* the dict of line 35, as its items in dict order
    name_idx, type_idx, lat_idx, lon_idx, mmsi_idx,
    row,           \* 0-based position of the loop over lines
    vessels,       \* the list returned
    \* ---- detect_oil_spill
    image,         \* the caller's array: [shape, data]
    gray, mask, contours,
    pixel_count, total_pixels,
    area_km2,      \* a fraction [num, den]
    risk_level,
    confidence,    \* in hundredths: 95 is 0.95
    overlay, annotated_image

aisVars == <<ais_file, text, lines, has_header, delimiter, headers, index_map,
             name_idx, type_idx, lat_idx, lon_idx, mmsi_idx, row, vessels>>
detVars == <<image, gray, mask, contours, pixel_count, total_pixels, area_km2,
             risk_level, confidence, overlay, annotated_image>>
vars == <<pc, aisVars, detVars>>

(***************************************************************************)
(* Bounds                                                                  *)
(***************************************************************************)
\* Lines of an uploaded AIS file.
MaxLines == 3

\* Pixels of an image whose pixels are enumerated (height * width).
MaxPixels == 4

\* How far around each tier boundary the pixel counts of TierCounts reach.
Near == 1

(***************************************************************************)
(* Python str / bytes operations                                           *)
(***************************************************************************)
\* A byte that is not valid UTF-8 (0xFF); every other byte is an ASCII character.
InvalidByte == "<0xFF>"

\* Python's None for the *_idx variables (column positions are >= 0).
None == -1

UpperCase == <<"A", "B", "C", "D", "E", "F", "G", "H", "I", "J", "K", "L", "M", "N", "O", "P", "Q", "R", "S", "T", "U", "V", "W", "X", "Y", "Z">>
LowerCase == <<"a", "b", "c", "d", "e", "f", "g", "h", "i", "j", "k", "l", "m", "n", "o", "p", "q", "r", "s", "t", "u", "v", "w", "x", "y", "z">>

\* str.isspace() characters of the ASCII range that the model's alphabet holds.
Whitespace == {" ", "\t", "\n", "\r", "\f"}

\* Line boundaries of str.splitlines() in the model's alphabet.
LineBreaks == {"\n", "\r", "\f"}

\* bytes.decode('utf-8', errors='ignore'): undecodable bytes are dropped.
Decode(bytes) == SelectSeq(bytes, LAMBDA b : b # InvalidByte)

LowerChar(c) ==
    IF \E k \in 1..Len(UpperCase) : UpperCase[k] = c
    THEN LowerCase[CHOOSE k \in 1..Len(UpperCase) : UpperCase[k] = c]
    ELSE c

\* str.lower()
Lower(s) == [k \in 1..Len(s) |-> LowerChar(s[k])]

RECURSIVE LStrip(_)
LStrip(s) ==
    IF s # <<>> /\ Head(s) \in Whitespace THEN LStrip(Tail(s)) ELSE s

RECURSIVE RStrip(_)
RStrip(s) ==
    IF s # <<>> /\ s[Len(s)] \in Whitespace
    THEN RStrip(SubSeq(s, 1, Len(s) - 1))
    ELSE s

\* str.strip()
Strip(s) == RStrip(LStrip(s))

\* `t in s` for strings
Contains(s, t) ==
    \E k \in 0..(Len(s) - Len(t)) : SubSeq(s, k + 1, k + Len(t)) = t

\* str.count(c) for a one-character c
Count(s, c) == Cardinality({k \in 1..Len(s) : s[k] = c})

\* str.split(d) for a one-character d: always at least one part.
RECURSIVE Split(_, _)
Split(s, d) ==
    IF \E k \in 1..Len(s) : s[k] = d
    THEN LET p == CHOOSE k \in 1..Len(s) :
                      s[k] = d /\ \A j \in 1..(k - 1) : s[j] # d
         IN  <<SubSeq(s, 1, p - 1)>> \o Split(SubSeq(s, p + 1, Len(s)), d)
    ELSE <<s>>

\* str.splitlines(): "\r\n" is one boundary, and a final boundary opens no line.
RECURSIVE SplitLines(_)
SplitLines(s) ==
    IF s = <<>> THEN <<>>
    ELSE IF \E k \in 1..Len(s) : s[k] \in LineBreaks
    THEN LET p == CHOOSE k \in 1..Len(s) :
                      s[k] \in LineBreaks /\ \A j \in 1..(k - 1) : s[j] \notin LineBreaks
             q == IF s[p] = "\r" /\ p < Len(s) /\ s[p + 1] = "\n" THEN p + 1 ELSE p
         IN  <<SubSeq(s, 1, p - 1)>> \o SplitLines(SubSeq(s, q + 1, Len(s)))
    ELSE <<s>>

\* seq[i] with Python's 0-based index: the item, or an IndexError.
GetItem(seq, i) ==
    IF 0 <= i /\ i < Len(seq)
    THEN [ok |-> TRUE, val |-> seq[i + 1]]
    ELSE [ok |-> FALSE, val |-> <<>>]

\* The bytes of a file with the given lines, "\n" between them.
RECURSIVE JoinLines(_)
JoinLines(ls) ==
    IF ls = <<>> THEN <<>>
    ELSE IF Len(ls) = 1 THEN ls[1]
    ELSE ls[1] \o <<"\n">> \o JoinLines(Tail(ls))

(***************************************************************************)
(* parse_ais_file                                                          *)
(***************************************************************************)
header_terms == << <<"m", "m", "s", "i">>, <<"n", "a", "m", "e">>, <<"v", "e", "s", "s", "e", "l">>, <<"l", "a", "t", "i", "t", "u", "d", "e">>, <<"l", "o", "n", "g", "i", "t", "u", "d", "e">> >>

\* line 21: [line.strip() for line in text.splitlines() if line.strip()]
StrippedLines(t) ==
    LET raw == SplitLines(t)
        stripped == [k \in 1..Len(raw) |-> Strip(raw[k])]
    IN  SelectSeq(stripped, LAMBDA l : l # <<>>)

\* HasHeader with the keyword "vessel" left out of header_terms.
HasHeaderNoVessel(header_line) ==
    \E k \in {1, 2, 4, 5} : Contains(Lower(header_line), header_terms[k])

\* line 28: any(term in header_lower for term in header_terms)
HasHeader(header_line) ==
    \E k \in 1..Len(header_terms) : Contains(Lower(header_line), header_terms[k])

\* line 32
Delimiter(header_line) ==
    IF Count(header_line, ",") >= Count(header_line, "\t") THEN "," ELSE "\t"

\* line 33 and line 50: [x.strip() for x in line.split(delimiter)]
SplitStrip(line, d) ==
    LET ps == Split(line, d) IN [k \in 1..Len(ps) |-> Strip(ps[k])]

\* dict[key] = idx: a key already present keeps its place and takes the new
\* value; a new key goes last.
DictPut(d, key, idx) ==
    IF \E k \in 1..Len(d) : d[k].key = key
    THEN [k \in 1..Len(d) |-> IF d[k].key = key THEN [key |-> key, idx |-> idx] ELSE d[k]]
    ELSE Append(d, [key |-> key, idx |-> idx])

\* line 35: {h.lower(): idx for idx, h in enumerate(headers)}
RECURSIVE IndexMapFrom(_, _, _)
IndexMapFrom(hs, k, d) ==
    IF k > Len(hs) THEN d
    ELSE IndexMapFrom(hs, k + 1, DictPut(d, Lower(hs[k]), k - 1))

IndexMap(hs) == IndexMapFrom(hs, 1, <<>>)

\* lines 37-47: one pass over index_map.items(); a slot is set only while None.
RECURSIVE ScanItems(_, _, _)
ScanItems(items, k, acc) ==
    IF k > Len(items) THEN acc
    ELSE LET key == items[k].key
             idx == items[k].idx
         IN  ScanItems(items, k + 1,
                 [name |-> IF Contains(key, <<"n", "a", "m", "e">>) /\ acc.name = None
                           THEN idx ELSE acc.name,
                  type |-> IF Contains(key, <<"t", "y", "p", "e">>) /\ acc.type = None
                           THEN idx ELSE acc.type,
                  lat  |-> IF key \in {<<"l", "a", "t", "i", "t", "u", "d", "e">>, <<"l", "a", "t">>} /\ acc.lat = None
                           THEN idx ELSE acc.lat,
                  lon  |-> IF key \in {<<"l", "o", "n", "g", "i", "t", "u", "d", "e">>, <<"l", "o", "n">>, <<"l", "o", "n", "g">>} /\ acc.lon = None
                           THEN idx ELSE acc.lon,
                  mmsi |-> IF key = <<"m", "m", "s", "i">> /\ acc.mmsi = None
                           THEN idx ELSE acc.mmsi])

NoIndex == [name |-> None, type |-> None, lat |-> None, lon |-> None, mmsi |-> None]

FieldIndexes(items) == ScanItems(items, 1, NoIndex)

\* Field without the range test: parts[idx] if idx is not None else ''
FieldUnguarded(parts, idx) ==
    IF idx # None THEN GetItem(parts, idx)
    ELSE [ok |-> TRUE, val |-> <<>>]

\* lines 53-57: parts[idx] if idx is not None and idx < len(parts) else ''
Field(parts, idx) ==
    IF idx # None /\ idx < Len(parts) THEN GetItem(parts, idx)
    ELSE [ok |-> TRUE, val |-> <<>>]

\* Describe with the location appended when either coordinate is present.
DescribeAnyCoordinate(name, vessel_type, lat, lon, mmsi) ==
    LET d1 == IF name # <<>> THEN name
              ELSE IF mmsi # <<>> THEN <<"M", "M", "S", "I", " ">> \o mmsi
              ELSE <<>>
        d2 == IF vessel_type # <<>> THEN d1 \o <<" ", "(">> \o vessel_type \o <<")">> ELSE d1
        d3 == IF lat # <<>> \/ lon # <<>> THEN d2 \o <<" ", "a", "t", " ">> \o lat \o <<",">> \o lon ELSE d2
    IN  d3

\* lines 59-67
Describe(name, vessel_type, lat, lon, mmsi) ==
    LET d1 == IF name # <<>> THEN name
              ELSE IF mmsi # <<>> THEN <<"M", "M", "S", "I", " ">> \o mmsi
              ELSE <<>>
        d2 == IF vessel_type # <<>> THEN d1 \o <<" ", "(">> \o vessel_type \o <<")">> ELSE d1
        d3 == IF lat # <<>> /\ lon # <<>> THEN d2 \o <<" ", "a", "t", " ">> \o lat \o <<",">> \o lon ELSE d2
    IN  d3

\* SkipRow without the test of the first field.
SkipRowOnlyEmpty(parts) == parts = <<>>

\* line 51: not parts or parts[0] == ''
SkipRow(parts) == parts = <<>> \/ parts[1] = <<>>

(***************************************************************************)
(* Inputs of parse_ais_file                                                *)
(***************************************************************************)
HdrFull      == <<"N", "a", "m", "e", ",", "T", "y", "p", "e", ",", "L", "a", "t", "i", "t", "u", "d", "e", ",", "L", "o", "n", "g", "i", "t", "u", "d", "e", ",", "M", "M", "S", "I">>
HdrNoMmsi    == <<"N", "a", "m", "e", ",", "T", "y", "p", "e", ",", "L", "a", "t", "i", "t", "u", "d", "e", ",", "L", "o", "n", "g", "i", "t", "u", "d", "e">>
HdrUnknown   == <<"U", "n", "k", "n", "o", "w", "n", " ", "v", "e", "s", "s", "e", "l", " ", "i", "n", "f", "o">>
HdrDupName   == <<"N", "a", "m", "e", ",", "T", "y", "p", "e", ",", "N", "a", "m", "e">>
HdrMmsiFirst == <<"M", "M", "S", "I", ",", "N", "a", "m", "e", ",", "T", "y", "p", "e", ",", "L", "a", "t", "i", "t", "u", "d", "e", ",", "L", "o", "n", "g", "i", "t", "u", "d", "e">>
HdrTab       == <<"m", "m", "s", "i", "\t", "S", "h", "i", "p", " ", "N", "a", "m", "e", "\t", "l", "a", "t", "\t", "L", "O", "N", "G">>
RawInfo      == <<"U", "n", "k", "n", "o", "w", "n", " ", "s", "h", "i", "p", " ", "i", "n", "f", "o">>
RowAtlantic  == <<"A", "t", "l", "a", "n", "t", "i", "c", " ", "S", "t", "a", "r", ",", "T", "a", "n", "k", "e", "r", ",", "3", "4", ".", "0", "5", ",", "-", "1", "1", "8", ".", "2", "5", ",", "1", "2", "3", "4", "5", "6", "7", "8", "9">>
RowMmsiOnly  == <<" ", " ", ",", ",", " ", " ", ",", ",", "9", "8", "7", "6", "5", "4", "3", "2", "1">>
RowMmsiFirst == <<"9", "8", "7", "6", "5", "4", "3", "2", "1", ",", ",", ",", ",">>
RowShort     == <<"A", ",", "T", ",", "B", "\r">>
RowTab       == <<"7", InvalidByte, "\t", "\t", "1", "\t", "2">>
RowBlank     == <<" ", "\t">>

FileLines == {HdrFull, HdrNoMmsi, HdrUnknown, HdrDupName, HdrMmsiFirst, HdrTab, RawInfo,
              RowAtlantic, RowMmsiOnly, RowMmsiFirst, RowShort, RowTab, RowBlank}

RECURSIVE SeqsUpTo(_, _)
SeqsUpTo(S, n) ==
    IF n = 0 THEN {<<>>}
    ELSE LET shorter == SeqsUpTo(S, n - 1)
         IN  shorter \cup {Append(s, x) : s \in {t \in shorter : Len(t) = n - 1}, x \in S}

\* The uploads: every file of at most MaxLines lines, and one whose read() raises.
Uploads ==
    {[readable |-> TRUE, bytes |-> JoinLines(ls)] : ls \in SeqsUpTo(FileLines, MaxLines)}
    \cup {[readable |-> FALSE, bytes |-> <<>>]}

NoImage == [shape |-> <<0, 0>>, data |-> <<>>]

\* The detector's variables while parse_ais_file runs.
DetectorIdle ==
    /\ image = NoImage /\ gray = <<>> /\ mask = <<>> /\ contours = {}
    /\ pixel_count = 0 /\ total_pixels = 0 /\ area_km2 = [num |-> 0, den |-> 1]
    /\ risk_level = "None" /\ confidence = 0
    /\ overlay = NoImage /\ annotated_image = NoImage

InitAIS ==
    /\ pc = "read"
    /\ ais_file \in Uploads
    /\ text = <<>>
    /\ lines = <<>>
    /\ has_header = FALSE
    /\ delimiter = ","
    /\ headers = <<>>
    /\ index_map = <<>>
    /\ name_idx = None /\ type_idx = None /\ lat_idx = None
    /\ lon_idx = None /\ mmsi_idx = None
    /\ row = 0
    /\ vessels = <<>>
    /\ DetectorIdle

\* lines 13-20: read and decode; an empty or unreadable upload returns [].
Read ==
    /\ pc = "read"
    /\ IF ~ais_file.readable \/ ais_file.bytes = <<>>
       THEN /\ pc' = "done"
            /\ text' = text
       ELSE /\ pc' = "lines"
            /\ text' = Decode(ais_file.bytes)
    /\ UNCHANGED <<ais_file, lines, has_header, delimiter, headers, index_map,
                   name_idx, type_idx, lat_idx, lon_idx, mmsi_idx, row, vessels, detVars>>

\* lines 21-23
ReadLines ==
    /\ pc = "lines"
    /\ lines' = StrippedLines(text)
    /\ pc' = IF lines' = <<>> THEN "done" ELSE "header"
    /\ UNCHANGED <<ais_file, text, has_header, delimiter, headers, index_map,
                   name_idx, type_idx, lat_idx, lon_idx, mmsi_idx, row, vessels, detVars>>

\* lines 24-30: header detection on lines[0], and the branch of line 30.
\* The loop of the headered branch starts at lines[1], the other at lines[0].
DetectHeader ==
    /\ pc = "header"
    /\ has_header' = HasHeader(lines[1])
    /\ vessels' = <<>>
    /\ pc' = IF has_header' THEN "index" ELSE "raw"
    /\ row' = 0
    /\ UNCHANGED <<ais_file, text, lines, delimiter, headers, index_map,
                   name_idx, type_idx, lat_idx, lon_idx, mmsi_idx, detVars>>

\* lines 32-47: delimiter, header columns, index_map and the five indexes.
BuildIndex ==
    /\ pc = "index"
    /\ delimiter' = Delimiter(lines[1])
    /\ headers' = SplitStrip(lines[1], delimiter')
    /\ index_map' = IndexMap(headers')
    /\ LET ix == FieldIndexes(index_map')
       IN  /\ name_idx' = ix.name
           /\ type_idx' = ix.type
           /\ lat_idx' = ix.lat
           /\ lon_idx' = ix.lon
           /\ mmsi_idx' = ix.mmsi
    /\ row' = 1
    /\ pc' = "rows"
    /\ UNCHANGED <<ais_file, text, lines, has_header, vessels, detVars>>

\* lines 49-69: one iteration of the loop over lines[1:].
ParseRow ==
    /\ pc = "rows"
    /\ row < Len(lines)
    /\ LET parts == SplitStrip(lines[row + 1], delimiter)
           name == Field(parts, name_idx)
           vessel_type == Field(parts, type_idx)
           lat == Field(parts, lat_idx)
           lon == Field(parts, lon_idx)
           mmsi == Field(parts, mmsi_idx)
           desc == Describe(name.val, vessel_type.val, lat.val, lon.val, mmsi.val)
       IN  IF SkipRow(parts)
           THEN /\ vessels' = vessels
                /\ pc' = pc
           ELSE IF \E f \in {name, vessel_type, lat, lon, mmsi} : ~f.ok
           THEN /\ vessels' = vessels       \* an IndexError leaves the function
                /\ pc' = "raised"
           ELSE /\ vessels' = IF desc # <<>> THEN Append(vessels, desc) ELSE vessels
                /\ pc' = pc
    /\ row' = row + 1
    /\ UNCHANGED <<ais_file, text, lines, has_header, delimiter, headers, index_map,
                   name_idx, type_idx, lat_idx, lon_idx, mmsi_idx, detVars>>

\* lines 72-73: one iteration of the loop over lines (no header).
RawLine ==
    /\ pc = "raw"
    /\ row < Len(lines)
    /\ vessels' = Append(vessels, lines[row + 1])
    /\ row' = row + 1
    /\ UNCHANGED <<pc, ais_file, text, lines, has_header, delimiter, headers, index_map,
                   name_idx, type_idx, lat_idx, lon_idx, mmsi_idx, detVars>>

\* line 74
Return ==
    /\ pc \in {"rows", "raw"}
    /\ row >= Len(lines)
    /\ pc' = "done"
    /\ UNCHANGED <<aisVars, detVars>>

Next ==
    \/ Read
    \/ ReadLines
    \/ DetectHeader
    \/ BuildIndex
    \/ ParseRow
    \/ RawLine
    \/ Return

Spec == InitAIS /\ [][Next]_vars

(***************************************************************************)
(* detect_oil_spill                                                        *)
(*                                                                         *)
(* An image is [shape |-> <<height, width>>, data |-> the pixels in raster *)
(* order], a pixel <<b, g, r>> of 8-bit samples.  Pixel k (from 1) lies in *)
(* row (k-1) \div width, column (k-1) % width.                             *)
(***************************************************************************)
Height(img) == img.shape[1]
Width(img)  == img.shape[2]
Positions(img) == 1..(Height(img) * Width(img))

\* cv2.cvtColor(.., COLOR_BGR2GRAY) on one 8-bit pixel: the luminance
\* 0.114 B + 0.587 G + 0.299 R, in 15-bit fixed point, rounded.
BGR2GRAY(px) == (3735 * px[1] + 19235 * px[2] + 9798 * px[3] + 16384) \div 32768

\* line 18: the threshold and the value of a pixel within it.
thresh == 30
maxval == 255

\* THRESH_BINARY_INV on one sample with a strict comparison the other way:
\* maxval when the sample is < thresh.
ThresholdBelow(g) == IF g < thresh THEN maxval ELSE 0

\* cv2.threshold(.., THRESH_BINARY_INV) on one sample: 0 when the sample is
\* > thresh, maxval otherwise.
ThresholdBinaryInv(g) == IF g > thresh THEN 0 ELSE maxval

\* cv2.countNonZero
CountNonZero(m) == Cardinality({k \in 1..Len(m) : m[k] # 0})

\* Pixels i and j of an image of width w touch (8-connectivity).
Adjacent8(i, j, w) ==
    LET ri == (i - 1) \div w   ci == (i - 1) % w
        rj == (j - 1) \div w   cj == (j - 1) % w
    IN  /\ i # j
        /\ ri - rj \in {-1, 0, 1}
        /\ ci - cj \in {-1, 0, 1}

\* The 8-connected component of the pixels S within the pixels M.
RECURSIVE Grow(_, _, _)
Grow(S, M, w) ==
    LET N == S \cup {j \in M : \E i \in S : Adjacent8(i, j, w)}
    IN  IF N = S THEN S ELSE Grow(N, M, w)

\* cv2.findContours(mask, RETR_EXTERNAL, CHAIN_APPROX_SIMPLE): one contour per
\* 8-connected region of non-zero pixels that lies in no other region's hole.
\* A contour is held as the pixels its outline runs through.  In an image of
\* one row, of one column or of 2 x 2 no region has a hole, and every pixel of
\* a region is on its outline.
ExternalContours(m, w) ==
    LET M == {k \in 1..Len(m) : m[k] # 0}
    IN  {Grow({k}, M, w) : k \in M}

\* RiskLevel without the test for an empty mask.
RiskLevelNoZeroCase(count) ==
    IF count > 100000 THEN "High"
    ELSE IF count > 5000 THEN "Medium"
    ELSE "Low"

\* RiskLevel with the bounds included in the upper tier.
RiskLevelInclusive(count) ==
    IF count = 0 THEN "None"
    ELSE IF count >= 100000 THEN "High"
    ELSE IF count >= 5000 THEN "Medium"
    ELSE "Low"

\* lines 27-34
RiskLevel(count) ==
    IF count = 0 THEN "None"
    ELSE IF count > 100000 THEN "High"
    ELSE IF count > 5000 THEN "Medium"
    ELSE "Low"

\* count / float(total) > thousandths / 1000.  The quotient of two integers
\* below 2^53 is rounded to the nearest double, and so is the literal: the
\* comparison of the doubles is that of the fractions as long as the two
\* fractions, when different, are more than one unit in the last place apart,
\* which they are for every total below 10^14.  (1000 * count stays within
\* 32 bits for the images of TierShapes.)
RatioAbove(count, total, thousandths) == 1000 * count > thousandths * total

\* Confidence with the bounds included in the upper tier.
ConfidenceInclusive(count, total) ==
    IF count = 0 THEN 0
    ELSE IF 1000 * count >= 50 * total THEN 95
    ELSE IF 1000 * count >= 20 * total THEN 85
    ELSE IF 1000 * count >= 5 * total THEN 70
    ELSE 50

\* lines 36-47, in hundredths
Confidence(count, total) ==
    IF count = 0 THEN 0
    ELSE IF RatioAbove(count, total, 50) THEN 95
    ELSE IF RatioAbove(count, total, 20) THEN 85
    ELSE IF RatioAbove(count, total, 5) THEN 70
    ELSE 50

\* (0, 0, 255): red in BGR order
Red == <<0, 0, 255>>

\* ndarray.copy()
Copy(img) == [shape |-> img.shape, data |-> img.data]

\* cv2.drawContours(img, contours, -1, Red, -1): every pixel within a contour
\* takes the colour.
DrawFilled(img, cs) ==
    [shape |-> img.shape,
     data  |-> [k \in 1..Len(img.data) |->
                   IF \E c \in cs : k \in c THEN Red ELSE img.data[k]]]

\* saturate_cast<uchar>(a * 0.4 + b * 0.6 + 0): 4a + 6b is even, so the sum is
\* never half way between two integers, and it is at most 255.
Blend(a, b) == (4 * a + 6 * b + 5) \div 10

\* cv2.addWeighted(over, 0.4, img, 0.6, 0): a new array
AddWeighted(over, img) ==
    [shape |-> img.shape,
     data  |-> [k \in 1..Len(img.data) |->
                   [ch \in 1..3 |-> Blend(over.data[k][ch], img.data[k][ch])]]]

\* The pixels off the contours that touch one: a stroke of width 2 along a
\* contour may cover them.
Halo(img, cs) ==
    {j \in Positions(img) :
        /\ \A c \in cs : j \notin c
        /\ \E c \in cs : \E i \in c : Adjacent8(i, j, Width(img))}

\* cv2.drawContours(img, contours, -1, Red, 2): the pixels of every contour
\* and those of the halo the stroke covers take the colour.
DrawOutline(img, cs, covered) ==
    [shape |-> img.shape,
     data  |-> [k \in 1..Len(img.data) |->
                   IF k \in covered \/ \E c \in cs : k \in c THEN Red ELSE img.data[k]]]

(***************************************************************************)
(* Inputs of detect_oil_spill                                              *)
(***************************************************************************)
\* Black (gray 0), blue (29), three grays (29, 30, 31) and white (255).
Palette == {<<0, 0, 0>>, <<255, 0, 0>>, <<30, 30, 30>>, <<31, 31, 31>>, <<255, 255, 255>>}

Shapes == {s \in (0..MaxPixels) \X (0..MaxPixels) : s[1] * s[2] <= MaxPixels}

\* Every 3-channel image of at most MaxPixels pixels over the palette, those of
\* height 0 or width 0 included.
Images ==
    UNION {{[shape |-> s, data |-> d] : d \in [1..(s[1] * s[2]) -> Palette]} : s \in Shapes}

\* The parser's variables while detect_oil_spill runs.
ParserIdle ==
    /\ ais_file = [readable |-> FALSE, bytes |-> <<>>]
    /\ text = <<>> /\ lines = <<>> /\ has_header = FALSE /\ delimiter = ","
    /\ headers = <<>> /\ index_map = <<>>
    /\ name_idx = None /\ type_idx = None /\ lat_idx = None
    /\ lon_idx = None /\ mmsi_idx = None
    /\ row = 0 /\ vessels = <<>>

InitDetect ==
    /\ pc = "cvtColor"
    /\ image \in Images
    /\ gray = <<>> /\ mask = <<>> /\ contours = {}
    /\ pixel_count = 0 /\ total_pixels = 0 /\ area_km2 = [num |-> 0, den |-> 1]
    /\ risk_level = "None" /\ confidence = 0
    /\ overlay = NoImage /\ annotated_image = NoImage
    /\ ParserIdle

\* line 15: cv2.cvtColor raises cv2.error on an array without pixels
\* (its assertion !_src.empty()); detect_oil_spill does not catch it.
CvtColor ==
    /\ pc = "cvtColor"
    /\ IF Height(image) * Width(image) = 0
       THEN /\ pc' = "raised"
            /\ gray' = gray
       ELSE /\ pc' = "threshold"
            /\ gray' = [k \in 1..Len(image.data) |-> BGR2GRAY(image.data[k])]
    /\ UNCHANGED <<image, mask, contours, pixel_count, total_pixels, area_km2,
                   risk_level, confidence, overlay, annotated_image, aisVars>>

\* line 18
Threshold ==
    /\ pc = "threshold"
    /\ mask' = [k \in 1..Len(gray) |-> ThresholdBinaryInv(gray[k])]
    /\ pc' = "findContours"
    /\ UNCHANGED <<image, gray, contours, pixel_count, total_pixels, area_km2,
                   risk_level, confidence, overlay, annotated_image, aisVars>>

\* line 20
FindContours ==
    /\ pc = "findContours"
    /\ contours' = ExternalContours(mask, Width(image))
    /\ pc' = "count"
    /\ UNCHANGED <<image, gray, mask, pixel_count, total_pixels, area_km2,
                   risk_level, confidence, overlay, annotated_image, aisVars>>

\* lines 22-25
CountPixels ==
    /\ pc = "count"
    /\ pixel_count' = CountNonZero(mask)
    /\ total_pixels' = Height(image) * Width(image)
    /\ area_km2' = [num |-> pixel_count', den |-> 1000000]
    /\ pc' = "risk"
    /\ UNCHANGED <<image, gray, mask, contours, risk_level, confidence,
                   overlay, annotated_image, aisVars>>

\* lines 27-34
Risk ==
    /\ pc = "risk"
    /\ risk_level' = RiskLevel(pixel_count)
    /\ pc' = "confidence"
    /\ UNCHANGED <<image, gray, mask, contours, pixel_count, total_pixels, area_km2,
                   confidence, overlay, annotated_image, aisVars>>

\* lines 36-47: the division of line 39 is reached only with pixel_count # 0,
\* and raises ZeroDivisionError when total_pixels is 0.
Conf ==
    /\ pc = "confidence"
    /\ IF pixel_count # 0 /\ total_pixels = 0
       THEN /\ pc' = "raised"
            /\ confidence' = confidence
       ELSE /\ pc' = "annotate"
            /\ confidence' = Confidence(pixel_count, total_pixels)
    /\ UNCHANGED <<image, gray, mask, contours, pixel_count, total_pixels, area_km2,
                   risk_level, overlay, annotated_image, aisVars>>

\* lines 49-60: with contours, fill them on a copy, blend the copy with the
\* image and stroke the contours on the blend; without, copy the image.
Annotate ==
    /\ pc = "annotate"
    /\ IF contours # {}
       THEN /\ overlay' = DrawFilled(Copy(image), contours)
            /\ \E covered \in SUBSET Halo(image, contours) :
                   annotated_image' =
                       DrawOutline(AddWeighted(overlay', image), contours, covered)
       ELSE /\ overlay' = overlay
            /\ annotated_image' = Copy(image)
    /\ pc' = "done"
    /\ UNCHANGED <<image, gray, mask, contours, pixel_count, total_pixels, area_km2,
                   risk_level, confidence, aisVars>>

NextDetect ==
    \/ CvtColor
    \/ Threshold
    \/ FindContours
    \/ CountPixels
    \/ Risk
    \/ Conf
    \/ Annotate

SpecDetect == InitDetect /\ [][NextDetect]_vars

(***************************************************************************)
(* The tiers of lines 27-47 at the sizes of real images.  The pixels of    *)
(* such an image are not enumerated: a state holds its shape and the       *)
(* number of non-zero mask pixels that line 22 counted.                    *)
(***************************************************************************)
TierShapes == {<<1, 20>>, <<2, 25>>, <<10, 20>>, <<30, 100>>, <<100, 1000>>,
               <<400, 500>>, <<1000, 1000>>, <<2000, 1000>>}

\* The counts within Near of a tier boundary of an image of `total` pixels.
TierCounts(total) ==
    LET marks == {0, 5000, 100000, total \div 200, total \div 50, total \div 20, total}
    IN  {c \in {m + d : m \in marks, d \in (-Near)..(Near + 1)} : 0 <= c /\ c <= total}

InitTiers ==
    /\ pc = "risk"
    /\ \E s \in TierShapes :
          /\ image = [shape |-> s, data |-> <<>>]
          /\ total_pixels = s[1] * s[2]
          /\ pixel_count \in TierCounts(s[1] * s[2])
    /\ area_km2 = [num |-> pixel_count, den |-> 1000000]
    /\ gray = <<>> /\ mask = <<>> /\ contours = {}
    /\ risk_level = "None" /\ confidence = 0
    /\ overlay = NoImage /\ annotated_image = NoImage
    /\ ParserIdle

NextTiers ==
    \/ Risk
    \/ Conf

SpecTiers == InitTiers /\ [][NextTiers]_vars

(***************************************************************************)
(* Properties of parse_ais_file                                            *)
(***************************************************************************)
FileOf(ls) == JoinLines(ls)

Headered == pc \in {"rows", "done"} /\ has_header

\* C1 as stated: a first line "Name,Type,Latitude,Longitude" is headered, and a
\* first line "Unknown vessel info" is not headered, so that every non-blank
\* trimmed line of the input is returned verbatim in order.
C1_Original ==
    (pc = "done" /\ lines # <<>>) =>
        /\ lines[1] = HdrNoMmsi => has_header
        /\ lines[1] = HdrUnknown => (~has_header /\ vessels = lines)

\* C1 amended: a first line "Name,Type,Latitude,Longitude" is headered; a first
\* line "Unknown vessel info" is headered as well (it contains "vessel"), none of
\* its columns fills a slot and the output is empty; a first line without any
\* keyword ("Unknown ship info") is not headered, and then every non-blank
\* trimmed line is returned verbatim in order.
C1_HeaderDetection ==
    /\ (pc \in {"index", "raw", "rows", "done"} /\ lines # <<>>) =>
          /\ lines[1] = HdrNoMmsi => has_header
          /\ lines[1] = HdrUnknown => has_header
          /\ lines[1] = RawInfo => ~has_header
    /\ (Headered /\ lines[1] = HdrUnknown) =>
          /\ <<name_idx, type_idx, lat_idx, lon_idx, mmsi_idx>> = <<None, None, None, None, None>>
          /\ vessels = <<>>
    /\ pc = "raw" => vessels = SubSeq(lines, 1, row)
    /\ (pc = "done" /\ lines # <<>> /\ ~has_header) => vessels = lines
    /\ (pc = "done" /\ ais_file.bytes = FileOf(<<RowBlank, RawInfo, RowShort>>)) =>
          vessels = << <<"U", "n", "k", "n", "o", "w", "n", " ", "s", "h", "i", "p", " ", "i", "n", "f", "o">>, <<"A", ",", "T", ",", "B">> >>

C1_Witness ==
    /\ pc = "done"
    /\ Len(lines) >= 2
    /\ lines[1] = HdrUnknown
    /\ has_header
    /\ vessels = <<>>

\* C2 as stated: under header "Name,Type,Latitude,Longitude,MMSI" the row
\* "  ,,  ,,987654321" yields exactly the description "MMSI 987654321".
C2_Original ==
    (pc = "done" /\ ais_file.bytes = FileOf(<<HdrFull, RowMmsiOnly>>)) =>
        vessels = << <<"M", "M", "S", "I", " ", "9", "8", "7", "6", "5", "4", "3", "2", "1">> >>

\* The rows among lines[1:row] (0-based) whose first trimmed field is not empty.
KeptRows == {k \in 2..row : ~SkipRow(SplitStrip(lines[k], delimiter))}

\* C2 amended: under header "Name,Type,Latitude,Longitude,MMSI" the row
\* "  ,,  ,,987654321" is skipped, its first trimmed field being empty, and yields
\* no description; under that header the output holds one description per row
\* with a non-empty first field.  The MMSI fallback is taken by a row whose first
\* field is not empty: header "MMSI,Name,Type,Latitude,Longitude" with row
\* "987654321,,,," yields exactly "MMSI 987654321".
C2_MmsiOnlyRow ==
    /\ (pc = "done" /\ ais_file.bytes = FileOf(<<HdrFull, RowMmsiOnly>>)) =>
          vessels = <<>>
    /\ (Headered /\ lines[1] = HdrFull) => Len(vessels) = Cardinality(KeptRows)
    /\ (pc = "done" /\ ais_file.bytes = FileOf(<<HdrMmsiFirst, RowMmsiFirst>>)) =>
          vessels = << <<"M", "M", "S", "I", " ", "9", "8", "7", "6", "5", "4", "3", "2", "1">> >>

C2_Witness ==
    /\ pc = "done"
    /\ ais_file.bytes = FileOf(<<HdrFull, RowMmsiOnly>>)
    /\ lines = << HdrFull, <<",", ",", " ", " ", ",", ",", "9", "8", "7", "6", "5", "4", "3", "2", "1">> >>
    /\ mmsi_idx = 4
    /\ vessels = <<>>

\* The 0-based position of the first column, left to right, whose lowercased
\* name satisfies a slot's rule; None when no column does.
FirstColumn(hs, Rule(_)) ==
    IF \E k \in 1..Len(hs) : Rule(Lower(hs[k]))
    THEN (CHOOSE k \in 1..Len(hs) :
              Rule(Lower(hs[k])) /\ \A j \in 1..(k - 1) : ~Rule(Lower(hs[j]))) - 1
    ELSE None

NameRule(key) == Contains(key, <<"n", "a", "m", "e">>)
TypeRule(key) == Contains(key, <<"t", "y", "p", "e">>)
LatRule(key)  == key \in {<<"l", "a", "t", "i", "t", "u", "d", "e">>, <<"l", "a", "t">>}
LonRule(key)  == key \in {<<"l", "o", "n", "g", "i", "t", "u", "d", "e">>, <<"l", "o", "n">>, <<"l", "o", "n", "g">>}
MmsiRule(key) == key = <<"m", "m", "s", "i">>

\* C4: every slot takes the position of the FIRST column, in column order, whose
\* lowercased trimmed name matches the slot's rule, for every header, also one
\* with two columns of the same name up to letter case ("Name,Type,Name": 0).
C4_FirstColumnWins ==
    Headered =>
        /\ name_idx = FirstColumn(headers, NameRule)
        /\ type_idx = FirstColumn(headers, TypeRule)
        /\ lat_idx  = FirstColumn(headers, LatRule)
        /\ lon_idx  = FirstColumn(headers, LonRule)
        /\ mmsi_idx = FirstColumn(headers, MmsiRule)

\* C6: parse_ais_file is total: no call raises (lines[0] and every parts[idx]
\* exist where they are read, and the loops stay within lines), what it returns is a sequence of non-empty strings, an empty or
\* unreadable buffer returns the empty sequence, and a row without an indexed
\* column has that field empty (header of five columns, row "A,T,B": "A (T)").
C6_Total ==
    /\ pc \in {"read", "lines", "header", "index", "rows", "raw", "done"}
    /\ pc \in {"header", "index", "rows", "raw"} => (lines # <<>> /\ row <= Len(lines))
    /\ \A k \in 1..Len(vessels) : vessels[k] # <<>>
    /\ (pc = "done" /\ (ais_file.bytes = <<>> \/ ~ais_file.readable)) => vessels = <<>>
    /\ (pc = "done" /\ ais_file.bytes = FileOf(<<HdrFull, RowShort>>)) =>
          vessels = << <<"A", " ", "(", "T", ")">> >>

C6_Witness ==
    /\ pc = "done"
    /\ ais_file.bytes = FileOf(<<HdrFull, RowShort>>)
    /\ lon_idx = 3
    /\ Len(SplitStrip(lines[2], delimiter)) = 3
    /\ vessels = << <<"A", " ", "(", "T", ")">> >>

\* A column of a row by a slot's index: empty when the slot has no index or the
\* row has no such column.
ColumnOf(parts, idx) ==
    IF idx = None \/ idx >= Len(parts) THEN <<>> ELSE parts[idx + 1]

\* The description C10 states, for the fields of one row.
StatedDescription(parts) ==
    LET name == ColumnOf(parts, name_idx)
        type == ColumnOf(parts, type_idx)
        lat  == ColumnOf(parts, lat_idx)
        lon  == ColumnOf(parts, lon_idx)
        mmsi == ColumnOf(parts, mmsi_idx)
        start == CASE name # <<>> -> name
                   [] name = <<>> /\ mmsi # <<>> -> <<"M", "M", "S", "I", " ">> \o mmsi
                   [] OTHER -> <<>>
        typePart == IF type = <<>> THEN <<>> ELSE <<" ", "(">> \o type \o <<")">>
        place == IF lat = <<>> \/ lon = <<>> THEN <<>>
                 ELSE <<" ", "a", "t", " ">> \o lat \o <<",">> \o lon
    IN  start \o typePart \o place

\* The stated descriptions of lines[from..to] (1-based), in order, without the
\* rows whose first field is empty and without the empty descriptions.
RECURSIVE StatedOutput(_, _)
StatedOutput(from, to) ==
    IF from > to THEN <<>>
    ELSE LET parts == SplitStrip(lines[to], delimiter)
             d == StatedDescription(parts)
         IN  IF parts[1] # <<>> /\ d # <<>>
             THEN Append(StatedOutput(from, to - 1), d)
             ELSE StatedOutput(from, to - 1)

\* C10: in headered mode the output is, in input order, the description of every
\* data row with a non-empty first field (name, else "MMSI " + mmsi, else
\* nothing; " (type)" iff type is non-empty; " at lat,lon" iff both are
\* non-empty) that is not empty; the header line is never output.  Header
\* "Name,Type,Latitude,Longitude,MMSI" with row
\* "Atlantic Star,Tanker,34.05,-118.25,123456789" yields
\* "Atlantic Star (Tanker) at 34.05,-118.25".
C10_Description ==
    /\ Headered => vessels = StatedOutput(2, IF pc = "done" THEN Len(lines) ELSE row)
    /\ (pc = "done" /\ ais_file.bytes = FileOf(<<HdrFull, RowAtlantic>>)) =>
          vessels = << <<"A", "t", "l", "a", "n", "t", "i", "c", " ", "S", "t", "a", "r", " ", "(", "T", "a", "n", "k", "e", "r", ")", " ", "a", "t", " ", "3", "4", ".", "0", "5", ",", "-", "1", "1", "8", ".", "2", "5">> >>

C10_Witness ==
    /\ pc = "done"
    /\ ais_file.bytes = FileOf(<<HdrFull, RowAtlantic, RowShort>>)
    /\ vessels = << <<"A", "t", "l", "a", "n", "t", "i", "c", " ", "S", "t", "a", "r", " ", "(", "T", "a", "n", "k", "e", "r", ")", " ", "a", "t", " ", "3", "4", ".", "0", "5", ",", "-", "1", "1", "8", ".", "2", "5">>, <<"A", " ", "(", "T", ")">> >>

(***************************************************************************)
(* Properties of detect_oil_spill                                          *)
(***************************************************************************)
Counted == pc \in {"risk", "confidence", "annotate", "done"}

ZeroArea == Height(image) * Width(image) = 0

\* C3: a pixel belongs to the spill mask iff its grayscale intensity is strictly
\* less than 30: pixel_count is the number of pixels of intensity 0..29, and a
\* pixel of intensity exactly 30 is never counted.
C3_StrictlyBelow30 ==
    /\ pc \in {"findContours", "count"} \cup {"risk", "confidence", "annotate", "done"} =>
          \A k \in 1..Len(mask) : (mask[k] # 0) <=> (BGR2GRAY(image.data[k]) < 30)
    /\ Counted =>
          pixel_count = Cardinality({k \in 1..Len(image.data) :
                                        BGR2GRAY(image.data[k]) \in 0..29})

\* C5: for a 3-channel image of height 0 or width 0 detect_oil_spill does not
\* raise; it returns pixel_count 0, risk_level "None", confidence 0.0 and an
\* unmodified copy of the input.
C5_DegenerateImage ==
    ZeroArea =>
        /\ pc # "raised"
        /\ pc = "done" =>
              /\ pixel_count = 0
              /\ risk_level = "None"
              /\ confidence = 0
              /\ annotated_image = image

MaskEmpty == \A k \in 1..Len(mask) : mask[k] = 0

C9_AtReturn ==
    /\ (pc \in {"count"} \cup {"risk", "confidence", "annotate", "done"}) =>
          (contours # {} <=> ~MaskEmpty)
    /\ (Counted /\ MaskEmpty) => pixel_count = 0
    /\ (pc \in {"confidence", "annotate", "done"} /\ MaskEmpty) => risk_level = "None"
    /\ (pc \in {"annotate", "done"} /\ MaskEmpty) => confidence = 0
    /\ (pc = "done" /\ MaskEmpty) =>
          /\ annotated_image = image
          /\ overlay = NoImage
    /\ (pc = "done" /\ annotated_image # image) => ~MaskEmpty

\* C9: for every image whose spill mask has no true pixel detect_oil_spill
\* returns pixel_count 0, confidence 0.0, risk_level "None" and an annotated
\* image equal to the input pixel for pixel; the highlight branch is taken only
\* when the mask has a true pixel; and no step of either branch changes the
\* input image.
C9_NoSpill == []C9_AtReturn /\ [][image' = image]_vars

C9_Witness ==
    /\ pc = "done"
    /\ Len(mask) = 4
    /\ MaskEmpty
    /\ \E k \in 1..4 : image.data[k] = <<31, 31, 31>>
    /\ annotated_image = image
    /\ risk_level = "None"

\* C7: with pixel_count > 0 and ratio = pixel_count / total_pixels, confidence
\* is 0.95 iff ratio > 0.05, 0.85 iff 0.02 < ratio <= 0.05, 0.70 iff
\* 0.005 < ratio <= 0.02 and 0.50 iff ratio <= 0.005 (over the integers: 20, 50
\* and 200 times pixel_count against total_pixels), so that a ratio of exactly
\* 0.05, 0.02, 0.005 gives 0.85, 0.70, 0.50.
C7_ConfidenceTiers ==
    (pc = "annotate" /\ pixel_count > 0) =>
        /\ confidence = 95 <=> 20 * pixel_count > total_pixels
        /\ confidence = 85 <=> (50 * pixel_count > total_pixels
                                /\ 20 * pixel_count <= total_pixels)
        /\ confidence = 70 <=> (200 * pixel_count > total_pixels
                                /\ 50 * pixel_count <= total_pixels)
        /\ confidence = 50 <=> 200 * pixel_count <= total_pixels
        /\ 20 * pixel_count = total_pixels => confidence = 85
        /\ 50 * pixel_count = total_pixels => confidence = 70
        /\ 200 * pixel_count = total_pixels => confidence = 50

C7_Witness ==
    /\ pc = "annotate"
    /\ pixel_count > 0
    /\ 20 * pixel_count = total_pixels
    /\ confidence = 85

TierRank(level) ==
    CASE level = "None" -> 0
      [] level = "Low" -> 1
      [] level = "Medium" -> 2
      [] level = "High" -> 3

\* C8: risk_level is "None" iff pixel_count = 0, "Low" iff 1 <= pixel_count <=
\* 5000, "Medium" iff 5001 <= pixel_count <= 100000, "High" iff pixel_count >=
\* 100001, and a larger pixel_count never gives a lower tier.
C8_RiskTiers ==
    pc \in {"confidence", "annotate", "done"} =>
        /\ risk_level = "None" <=> pixel_count = 0
        /\ risk_level = "Low" <=> (1 <= pixel_count /\ pixel_count <= 5000)
        /\ risk_level = "Medium" <=> (5001 <= pixel_count /\ pixel_count <= 100000)
        /\ risk_level = "High" <=> pixel_count >= 100001
        /\ \A larger \in TierCounts(total_pixels) :
              larger >= pixel_count => TierRank(RiskLevel(larger)) >= TierRank(risk_level)

C8_Witness ==
    /\ pc = "annotate"
    /\ pixel_count = 100000
    /\ risk_level = "Medium"
    /\ total_pixels > 100000

====
